---- MODULE Spec2Model ----
(***************************************************************************)
(* A model of the tool-calling chat agent of mcp-md:                       *)
(*   - MCPClient   (src/src/mcp_chatbot/mcp/client.py): one session with a *)
(*     tool server, its exit stack, retrying execute_tool, locked cleanup; *)
(*   - ChatSession (src/src/mcp_chatbot/chat/session.py): initialization,  *)
(*     the registry tool_client_map, tool-call extraction, the bounded     *)
(*     tool-round loop of send_message, clear_history, cleanup_clients.    *)
(*                                                                         *)
(* Three specifications share the variables:                               *)
(*   Spec         one caller driving a ChatSession and its clients;        *)
(*   SpecRetry    execute_tool called with every retries value;            *)
(*   SpecCleanup  several cleanup() calls interleaved on one client.       *)
(***************************************************************************)
EXTENDS Integers, Sequences, FiniteSets, TLC

(***************************************************************************)
(* Bounds of the model.                                                    *)
(***************************************************************************)
NumClients == 2
MaxIterations == 2
MaxHistory == 7
MaxInits == 2
MaxShutdowns == 1
MaxRetries == 3
NumTasks == 2
MaxCalls == 2
MaxDepth == 2

(***************************************************************************)
(* Program constants.                                                      *)
(***************************************************************************)
DefaultRetries == 2

Clients == 1..NumClients
None == "None"

(***************************************************************************)
(* Model output as text.  A text is a sequence of tokens; the braces are   *)
(* tokens of their own, so that json.loads and the brace pattern of        *)
(* _extract_tool_calls see the structure they see in the characters.       *)
(***************************************************************************)
LB == [t |-> "{", v |-> ""]
RB == [t |-> "}", v |-> ""]
KeyTool(n) == [t |-> "tool", v |-> n]
KeyArgs == [t |-> "arguments", v |-> ""]
Key == [t |-> "key", v |-> ""]
Val == [t |-> "value", v |-> ""]
Prose == [t |-> "prose", v |-> ""]

\* A tool value that is a JSON array or object: a Python list or dict.
Unhashable == "[unhashable]"
SharedTool == "read_markdown_file"
OwnTools == <<"write_markdown_file", "list_markdown_files", "delete_markdown_file">>
AbsentTool == "get_weather"

\* The tools client c reports, in discovery order: every server offers
\* SharedTool, and server c offers one tool of its own.
Catalogue(c) == <<SharedTool, OwnTools[c]>>

(***************************************************************************)
(* json.loads on a token text.                                             *)
(***************************************************************************)
RECURSIVE ValueEnd(_, _)
RECURSIVE MembersEnd(_, _)
\* The index of the last token of the JSON value that starts at s[i]; 0 when
\* no JSON value starts there.
ValueEnd(s, i) ==
    IF i > Len(s) THEN 0
    ELSE IF s[i].t = "value" THEN i
    ELSE IF s[i].t = "{" THEN MembersEnd(s, i + 1)
    ELSE 0

\* The index of the "}" closing the object whose members start at s[i].
MembersEnd(s, i) ==
    IF i > Len(s) THEN 0
    ELSE IF s[i].t = "}" THEN i
    ELSE IF s[i].t = "tool" THEN MembersEnd(s, i + 1)
    ELSE IF s[i].t \in {"arguments", "key"}
         THEN LET e == ValueEnd(s, i + 1)
              IN  IF e = 0 THEN 0 ELSE MembersEnd(s, e + 1)
    ELSE 0

NoDict == [ok |-> TRUE, isdict |-> FALSE, has_tool |-> FALSE, tool |-> None,
           has_args |-> FALSE, arguments |-> <<>>]
JSONDecodeError == [NoDict EXCEPT !.ok = FALSE]

RECURSIVE TopMembers(_, _, _)
\* The dict built from the members of the object s, from member index i on;
\* a repeated key keeps its last value, as a Python dict does.
TopMembers(s, i, acc) ==
    IF s[i].t = "}" THEN acc
    ELSE IF s[i].t = "tool"
         THEN TopMembers(s, i + 1, [acc EXCEPT !.has_tool = TRUE, !.tool = s[i].v])
    ELSE LET e == ValueEnd(s, i + 1)
         IN  IF s[i].t = "arguments"
             THEN TopMembers(s, e + 1, [acc EXCEPT !.has_args = TRUE,
                                            !.arguments = SubSeq(s, i + 1, e)])
             ELSE TopMembers(s, e + 1, acc)

json_loads(s) ==
    IF Len(s) = 0 \/ ValueEnd(s, 1) # Len(s) THEN JSONDecodeError
    ELSE IF s[1].t = "value" THEN NoDict
    ELSE TopMembers(s, 2, [NoDict EXCEPT !.isdict = TRUE])

\* A test that forgets to look for the two keys.
IsToolCallAnyDict(j) == j.ok /\ j.isdict

\* isinstance(data, dict) and "tool" in data and "arguments" in data
IsToolCall(j) == j.ok /\ j.isdict /\ j.has_tool /\ j.has_args
Request(j) == [tool |-> j.tool, arguments |-> j.arguments]

(***************************************************************************)
(* The pattern {[^{}]*({[^{}]*})*[^{}]*} of _extract_tool_calls.           *)
(***************************************************************************)
IsBrace(tok) == tok.t \in {"{", "}"}

RECURSIVE SkipNonBrace(_, _)
\* [^{}]* from s[i]: the first index at or after i holding a brace, or
\* Len(s) + 1.
SkipNonBrace(s, i) ==
    IF i > Len(s) \/ IsBrace(s[i]) THEN i ELSE SkipNonBrace(s, i + 1)

\* The pattern {[^{}]*} : no nested group is accepted.
SkipGroupsNone(s, i) == i

RECURSIVE SkipGroups(_, _)
\* ({[^{}]*})* from s[i]: the index after the last adjacent flat group.
SkipGroups(s, i) ==
    IF i > Len(s) \/ s[i].t # "{" THEN i
    ELSE LET k == SkipNonBrace(s, i + 1)
         IN  IF k <= Len(s) /\ s[k].t = "}" THEN SkipGroups(s, k + 1) ELSE i

\* The index of the last token of the match that starts at s[i]; 0 when the
\* pattern does not match there.
MatchEnd(s, i) ==
    IF s[i].t # "{" THEN 0
    ELSE LET j == SkipGroups(s, SkipNonBrace(s, i + 1))
             k == SkipNonBrace(s, j)
         IN  IF k <= Len(s) /\ s[k].t = "}" THEN k ELSE 0

RECURSIVE finditer(_, _)
\* re.finditer: the non-overlapping matches from s[i] on, left to right.
finditer(s, i) ==
    IF i > Len(s) THEN <<>>
    ELSE LET e == MatchEnd(s, i)
         IN  IF e = 0 THEN finditer(s, i + 1)
             ELSE <<SubSeq(s, i, e)>> \o finditer(s, e + 1)

RECURSIVE CollectToolCalls(_)
CollectToolCalls(matches) ==
    IF matches = <<>> THEN <<>>
    ELSE LET j == json_loads(Head(matches))
         IN  (IF IsToolCall(j) THEN <<Request(j)>> ELSE <<>>)
             \o CollectToolCalls(Tail(matches))

\* ChatSession._extract_tool_calls
_extract_tool_calls(llm_response) ==
    LET whole == json_loads(llm_response)
    IN  IF IsToolCall(whole) THEN <<Request(whole)>>
        ELSE CollectToolCalls(finditer(llm_response, 1))

(***************************************************************************)
(* The completions the model may produce in Spec (a bounded choice among   *)
(* every shape the loop distinguishes).                                    *)
(***************************************************************************)
EmptyObject == <<LB, RB>>
FlatArgs == <<LB, Key, Val, RB>>
CallText(n, a) == <<LB, KeyTool(n), KeyArgs>> \o a \o <<RB>>

\* {"tool": ..., "arguments": {}  with the closing brace missing, after prose
Unclosed == <<Prose, LB, KeyTool(SharedTool), KeyArgs, LB, RB>>

LLMOutputs ==
    { <<Prose>>,                                         \* a plain answer
      Unclosed,                                          \* malformed JSON
      CallText(SharedTool, FlatArgs),                    \* one call, whole text
      <<Prose>> \o CallText(OwnTools[1], EmptyObject)
                \o CallText(AbsentTool, EmptyObject),    \* two calls in prose
      CallText(Unhashable, EmptyObject) }                \* "tool": [...]

UserInputs == { <<Prose>> }

(***************************************************************************)
(* Messages.  The content is a record whose field k tells what it holds.   *)
(***************************************************************************)
Text(t) == [k |-> "text", text |-> t]
Message(role, content) == [role |-> role, content |-> content]

RECURSIVE AllTools(_)
\* The second loop of ChatSession.initialize: the tools of clients 1..n.
AllTools(n) == IF n = 0 THEN <<>> ELSE AllTools(n - 1) \o Catalogue(n)

\* SYSTEM_MESSAGE.format(tools_description=...)
SystemMessage == Message("system", [k |-> "prompt", tools |-> AllTools(NumClients)])

(***************************************************************************)
(* State.                                                                  *)
(***************************************************************************)
VARIABLES
    messages,          \* ChatSession.messages
    _is_initialized,   \* ChatSession._is_initialized
    tool_client_map,   \* ChatSession.tool_client_map: tool name -> client
    session,           \* MCPClient.session is not None, per client
    exit_stack,        \* MCPClient.exit_stack: the contexts entered, per client
    cleanup_lock,      \* MCPClient._cleanup_lock: the task holding it, or 0
    pc,                \* where the caller of the ChatSession stands
    frame,             \* the local variables of the running operation
    last,              \* how the last finished operation ended
    turn,              \* what the current or last send_message did (history)
    log,               \* what the running or last operation has logged (history)
    stats,             \* counts of calls, and per client of what happened to
                       \* the transport it opened last (history)
    task,              \* SpecCleanup: the cleanup() calls in progress
    rt,                \* SpecRetry: one execute_tool call
    xt,                \* SpecExtract: one _extract_tool_calls call
    launch             \* SpecLaunch: one MCPClient.initialize call

vars == <<messages, _is_initialized, tool_client_map, session, exit_stack,
          cleanup_lock, pc, frame, last, turn, log, stats, task, rt, xt, launch>>

EmptyMap == [n \in {} |-> 0]

IdleFrame ==
    [op |-> "none", i |-> 0, after |-> "none", user |-> <<>>,
     max_iterations |-> 0, tool_iteration |-> 0, llm_response |-> <<>>,
     calls |-> <<>>, idx |-> 0, tool_calls |-> <<>>, execs |-> <<>>,
     failing |-> 0, phase |-> "none"]

NoTurn ==
    [start |-> 0, n |-> 0, rounds |-> 0, completions |-> 0, all_tools |-> TRUE,
     executed_for |-> 0, queried_over |-> 0, failed |-> {}, recovered |-> {}]

NoResult == [op |-> "none", kind |-> "none", value |-> [k |-> "none"],
             cause |-> "none", failing |-> 0]
Return(op, v) == [NoResult EXCEPT !.op = op, !.kind = "return", !.value = v]
Raise(op, cause) == [NoResult EXCEPT !.op = op, !.kind = "raise", !.cause = cause]
Bool(b) == [k |-> "bool", b |-> b]
Nothing == [k |-> "None"]
InitFailedText == [k |-> "str", s |-> "init failed"]

NoTask == [pc |-> "idle", client |-> 0, pending |-> FALSE, calls |-> 0,
           outcome |-> "none"]
NoRetry == [pc |-> "none", has_session |-> FALSE, retries |-> 0, outcomes |-> <<>>,
            result |-> [kind |-> "none", value |-> None, exc |-> 0, trace |-> <<>>]]

NoExtract == [pc |-> "none", text |-> <<>>, tool |-> None, arguments |-> <<>>,
              whole |-> FALSE, result |-> <<>>]

NoConfig == [command |-> None, located |-> FALSE]
NoLaunch == [pc |-> "none", client |-> 0, config |-> NoConfig, raised |-> FALSE,
             exc |-> "none", attempted |-> FALSE]

NoStats ==
    [opened |-> [c \in Clients |-> 0], released |-> [c \in Clients |-> 0],
     cleanups |-> [c \in Clients |-> 0], inits |-> 0, shutdowns |-> 0,
     client_inits |-> 0]

\* ChatSession.__init__
NewChatSession ==
    /\ messages = <<>>
    /\ _is_initialized = FALSE
    /\ tool_client_map = EmptyMap
    /\ pc = "idle"
    /\ frame = IdleFrame
    /\ last = NoResult
    /\ turn = NoTurn
    /\ log = {}

\* MCPClient.__init__, for every client
NewClients ==
    /\ session = [c \in Clients |-> FALSE]
    /\ exit_stack = [c \in Clients |-> <<>>]
    /\ cleanup_lock = [c \in Clients |-> 0]
    /\ stats = NoStats

Init ==
    /\ NewChatSession
    /\ NewClients
    /\ task = [t \in 1..NumTasks |-> NoTask]
    /\ xt = NoExtract
    /\ launch = NoLaunch
    /\ rt = NoRetry

(***************************************************************************)
(* MCPClient.  Its operations are functions of the clients' state w =      *)
(* [session, exit_stack, stats, log] and of what the environment does (a   *)
(* launch that fails, a release that raises, a tool that fails).           *)
(***************************************************************************)
World == [session |-> session, exit_stack |-> exit_stack, stats |-> stats, log |-> log]

RECURSIVE Count(_, _)
Count(stk, x) ==
    IF stk = <<>> THEN 0
    ELSE (IF Head(stk) = x THEN 1 ELSE 0) + Count(Tail(stk), x)

\* AsyncExitStack.aclose pops every callback and runs it, whether or not one
\* of them raises; it raises at the end when one did.  A stack with nothing
\* on it has nothing that can raise.
acloseRaises(stk, close_ok) == stk # <<>> /\ ~close_ok

\* One round of the loop of aclose: the callback entered last is popped and
\* run, which releases what it guards.
pop_callback(w, c) ==
    LET stk == w.exit_stack[c]
    IN  [w EXCEPT !.exit_stack[c] = SubSeq(stk, 1, Len(stk) - 1),
                  !.stats.released[c] = @ + (IF stk[Len(stk)] = "transport" THEN 1 ELSE 0)]

RECURSIVE aclose(_, _)
aclose(w, c) == IF w.exit_stack[c] = <<>> THEN w ELSE aclose(pop_callback(w, c), c)

\* What follows "await self.exit_stack.aclose()" in MCPClient.cleanup: the
\* handle is dropped when aclose returned, and the error is logged and
\* swallowed when it raised.
after_aclose(w, c, raised) ==
    IF raised THEN [w EXCEPT !.log = @ \cup {<<"cleanup error", c>>}]
    ELSE [w EXCEPT !.session[c] = FALSE]

\* The body of MCPClient.cleanup, inside the lock.
release_region(w, c, close_ok) ==
    after_aclose(aclose(w, c), c, acloseRaises(w.exit_stack[c], close_ok))

\* A cleanup without its except block: what aclose raised goes to the caller.
cleanup_outcome_propagates(pending) == IF pending THEN "raise" ELSE "return"

\* How MCPClient.cleanup ends: "except Exception" swallows what aclose raised.
cleanup_outcome(pending) == "return"

\* A cleanup that drops the handle and closes nothing.
MCPClient_cleanup_handle_only(w, c, close_ok) ==
    [w EXCEPT !.session[c] = FALSE, !.stats.cleanups[c] = @ + 1]

\* MCPClient.cleanup by a caller that nobody interleaves with: the lock is
\* free, it is taken, the region runs and the lock is given back.
MCPClient_cleanup(w, c, close_ok) ==
    LET r == release_region(w, c, close_ok)
    IN  [r EXCEPT !.stats.cleanups[c] = @ + 1]

InitOutcomes == {"ok", "no_command", "transport_fail", "session_fail", "handshake_fail"}

\* config["command"]: "npx", another program, or null; located tells whether
\* the program is on the system.
Commands == { "npx", "python", None }
Configs ==
    { [command |-> k, located |-> l] : k \in Commands \ {None}, l \in BOOLEAN }
        \cup { NoConfig }

\* shutil.which(cmd): the path of the program, None when it is not found.
which(cfg) == IF cfg.located THEN cfg.command ELSE None

\* command = shutil.which("npx") if config["command"] == "npx"
\*           else config["command"]
resolve(cfg) == IF cfg.command = "npx" THEN which(cfg) ELSE cfg.command

\* What MCPClient.initialize can come to with the configuration cfg: the
\* ValueError when the command is None, a launch that fails when the program
\* is not on the system, and otherwise any of the outcomes of the try block.
LaunchOutcomes(cfg) ==
    IF resolve(cfg) = None THEN {"no_command"}
    ELSE IF ~cfg.located THEN {"transport_fail"}
    ELSE InitOutcomes \ {"no_command"}

\* The exception MCPClient.initialize raises for the outcome o.
ExcOf(o) ==
    CASE o = "ok" -> "none"
      [] o = "no_command" -> "ValueError"
      [] o = "transport_fail" -> "launch error"
      [] o = "session_fail" -> "session error"
      [] OTHER -> "handshake error"

\* What MCPClient.initialize has entered on the exit stack when o happens.
Entered(o) ==
    CASE o \in {"no_command", "transport_fail"} -> <<>>
      [] o = "session_fail" -> <<"transport">>
      [] OTHER -> <<"transport", "session">>

\* MCPClient.initialize: [raised, w].  A failure inside the try block is
\* logged, cleanup is awaited, and the exception is raised again; the
\* ValueError for a command that is None is raised before the try block.
MCPClient_initialize(w, c, o, close_ok) ==
    LET opens == Count(Entered(o), "transport")
        w1 == [w EXCEPT !.exit_stack[c] = @ \o Entered(o),
                        !.stats.opened[c] = IF opens > 0 THEN opens ELSE @,
                        !.stats.released[c] = IF opens > 0 THEN 0 ELSE @,
                        !.stats.cleanups[c] = 0,
                        !.stats.client_inits = @ + 1]
    IN  IF o = "no_command"
        THEN [raised |-> TRUE, w |-> [w EXCEPT !.stats.cleanups[c] = 0,
                                               !.stats.client_inits = @ + 1]]
        ELSE IF o = "ok"
             THEN [raised |-> FALSE, w |-> [w1 EXCEPT !.session[c] = TRUE]]
        ELSE [raised |-> TRUE,
              w |-> MCPClient_cleanup(
                        [w1 EXCEPT !.log = @ \cup {<<"initialize error", c>>}],
                        c, close_ok)]

\* MCPClient.list_tools: [raised, tools].
MCPClient_list_tools(w, c, lt) ==
    IF ~w.session[c] \/ lt = "fail" THEN [raised |-> TRUE, tools |-> <<>>]
    ELSE [raised |-> FALSE, tools |-> Catalogue(c)]

RECURSIVE retry_loop(_, _, _, _)
\* The while loop of MCPClient.execute_tool.  outcomes[k] is what the k-th
\* session.call_tool does; trace lists the calls and the sleeps made.
retry_loop(retries, outcomes, attempt, trace) ==
    IF ~(attempt < retries)
    THEN [kind |-> "return", value |-> None, exc |-> 0, trace |-> trace]
    ELSE LET tr == Append(trace, "call")
             a == attempt + 1
         IN  IF outcomes[a] = "ok"
             THEN [kind |-> "return", value |-> "CallToolResult", exc |-> 0, trace |-> tr]
             ELSE IF a < retries
                  THEN retry_loop(retries, outcomes, a, Append(tr, "sleep"))
                  ELSE [kind |-> "raise", value |-> None, exc |-> a, trace |-> tr]

NotInitialized == [kind |-> "raise", value |-> None, exc |-> -1, trace |-> <<>>]

\* An execute_tool whose loop makes one attempt more than retries.
execute_tool_one_more(has_session, retries, outcomes) ==
    IF ~has_session THEN NotInitialized
    ELSE retry_loop(retries + 1, outcomes, 0, <<>>)

\* MCPClient.execute_tool
execute_tool(has_session, retries, outcomes) ==
    IF ~has_session THEN NotInitialized
    ELSE retry_loop(retries, outcomes, 0, <<>>)

Invoked(r) == Count(r.trace, "call")
Waits(r) == Count(r.trace, "sleep")
Outcomes(n) == [1..n -> {"ok", "fail"}]

(***************************************************************************)
(* ChatSession.                                                            *)
(***************************************************************************)
\* A history that is not appended to: the message is put in front.
PrependMessage(msgs, m) == <<m>> \o msgs

\* self.messages.append(message)
AppendMessage(msgs, m) == Append(msgs, m)

SetWorld(w) ==
    /\ session' = w.session
    /\ exit_stack' = w.exit_stack
    /\ stats' = w.stats
    /\ log' = w.log

Finish(r) == pc' = "idle" /\ last' = r /\ frame' = IdleFrame

\* self.tool_client_map[tool.name] = client
Assign(map, name, c) ==
    [n \in DOMAIN map \cup {name} |-> IF n = name THEN c ELSE map[n]]

RECURSIVE RegisterTools(_, _, _)
\* The loop of ChatSession.initialize over the tools of client c: a name
\* already in the map is logged with the client that holds it, and assigned.
RegisterTools(reg, tools, c) ==
    IF tools = <<>> THEN reg
    ELSE LET name == Head(tools)
             seen == name \in DOMAIN reg.map
         IN  RegisterTools(
                 [map |-> Assign(reg.map, name, c),
                  warned |-> IF seen
                             THEN reg.warned \cup {<<"tool exists", name, reg.map[name]>>}
                             ELSE reg.warned],
                 Tail(tools), c)

is_successful(tc) == tc.error = None /\ tc.result # None

ToolNotFound == "tool not found"
ToolError == "error while executing the tool"

NotContacted == [kind |-> "none", value |-> None, exc |-> 0, trace |-> <<>>]

\* An _execute_tool_call without its try block: what execute_tool raises
\* goes on to the caller.
_execute_tool_call_uncaught(req, map, sess, outcomes) ==
    LET tc == [tool |-> req.tool, arguments |-> req.arguments,
               result |-> None, error |-> None]
    IN  IF req.tool = Unhashable
        THEN [raised |-> "lookup", tool_call |-> tc, client |-> 0, exec |-> NotContacted]
        ELSE IF req.tool \in DOMAIN map
        THEN LET client == map[req.tool]
                 r == execute_tool(sess[client], DefaultRetries, outcomes)
             IN  [raised |-> IF r.kind = "raise" THEN "exec" ELSE "none",
                  client |-> client, exec |-> r,
                  tool_call |-> [tc EXCEPT !.result = r.value]]
        ELSE [raised |-> "none", client |-> 0, exec |-> NotContacted,
              tool_call |-> [tc EXCEPT !.error = ToolNotFound]]

\* An _execute_tool_call whose except block logs the error and forgets to
\* store it in the outcome.
_execute_tool_call_error_unset(req, map, sess, outcomes) ==
    LET tc == [tool |-> req.tool, arguments |-> req.arguments,
               result |-> None, error |-> None]
    IN  IF req.tool = Unhashable
        THEN [raised |-> "lookup", tool_call |-> tc, client |-> 0, exec |-> NotContacted]
        ELSE IF req.tool \in DOMAIN map
        THEN LET client == map[req.tool]
                 r == execute_tool(sess[client], DefaultRetries, outcomes)
             IN  [raised |-> "none", client |-> client, exec |-> r,
                  tool_call |-> IF r.kind = "return"
                                THEN [tc EXCEPT !.result = r.value]
                                ELSE tc]
        ELSE [raised |-> "none", client |-> 0, exec |-> NotContacted,
              tool_call |-> [tc EXCEPT !.error = ToolNotFound]]

\* ChatSession._execute_tool_call: [raised, tool_call, client, exec], where
\* raised names what the call raises ("none" when it returns), client is the
\* client the registry gives (0 when it gives none) and exec is what
\* execute_tool did.  The lookup "tool_name in self.tool_client_map" hashes
\* the name, which raises TypeError for a list or a dict, outside the try
\* block.
_execute_tool_call(req, map, sess, outcomes) ==
    LET tc == [tool |-> req.tool, arguments |-> req.arguments,
               result |-> None, error |-> None]
    IN  IF req.tool = Unhashable
        THEN [raised |-> "lookup", tool_call |-> tc, client |-> 0, exec |-> NotContacted]
        ELSE IF req.tool \in DOMAIN map
        THEN LET client == map[req.tool]
                 r == execute_tool(sess[client], DefaultRetries, outcomes)
             IN  [raised |-> "none", client |-> client, exec |-> r,
                  tool_call |-> IF r.kind = "return"
                                THEN [tc EXCEPT !.result = r.value]
                                ELSE [tc EXCEPT !.error = ToolError]]
        ELSE [raised |-> "none", client |-> 0, exec |-> NotContacted,
              tool_call |-> [tc EXCEPT !.error = ToolNotFound]]

\* The line send_message renders for one outcome.
RenderLine(tc) ==
    [tool |-> tc.tool, arguments |-> tc.arguments,
     shown |-> IF is_successful(tc) THEN tc.result ELSE tc.error]

ToolResults(tool_calls) ==
    Message("system", [k |-> "tool_results",
                       lines |-> [i \in 1..Len(tool_calls) |-> RenderLine(tool_calls[i])]])

BeginInit(op, user, n) ==
    /\ stats.inits < MaxInits
    /\ stats' = [stats EXCEPT !.inits = @ + 1, !.client_inits = 0]
    /\ tool_client_map' = EmptyMap
    /\ frame' = [IdleFrame EXCEPT !.op = op, !.i = 1, !.user = user,
                                  !.max_iterations = n]
    /\ pc' = "init_client"

\* What ChatSession.initialize returns to its caller when it failed; the
\* caller send_message returns its own text then.
InitFailed(op, phase, f) ==
    [Return(op, IF op = "initialize" THEN Bool(FALSE) ELSE InitFailedText)
       EXCEPT !.cause = phase, !.failing = f]

\* An except block that returns False without cleaning the clients up.
FailInitNoCleanup(f, phase) == Finish(InitFailed(frame.op, phase, f))

\* The except blocks of ChatSession.initialize: "await self.cleanup_clients()"
\* and then "return False".  f is the client whose call raised.
FailInit(f, phase) ==
    /\ pc' = "cleanup"
    /\ frame' = [frame EXCEPT !.i = 1, !.after = "init_failed", !.failing = f,
                              !.phase = phase]
    /\ UNCHANGED last

\* ChatSession.initialize, called by the user of the ChatSession.
CallInitialize ==
    /\ pc = "idle"
    /\ IF _is_initialized
       THEN /\ Finish(Return("initialize", Bool(TRUE)))
            /\ UNCHANGED <<tool_client_map, stats>>
       ELSE /\ BeginInit("initialize", <<>>, 0)
            /\ last' = NoResult
    /\ log' = {}
    /\ turn' = NoTurn
    /\ UNCHANGED <<messages, _is_initialized, session, exit_stack, cleanup_lock,
                   task, rt, xt, launch>>

\* One round of the first loop of ChatSession.initialize.
InitClient ==
    /\ pc = "init_client"
    /\ \E cfg \in Configs, close_ok \in BOOLEAN, lt \in {"ok", "fail"} :
       \E o \in LaunchOutcomes(cfg) :
         LET c == frame.i
             r == MCPClient_initialize(World, c, o, close_ok)
             l == MCPClient_list_tools(r.w, c, lt)
             reg == RegisterTools([map |-> tool_client_map, warned |-> {}], l.tools, c)
         IN  IF r.raised \/ l.raised
             THEN /\ SetWorld([r.w EXCEPT !.log = @ \cup {<<"init client failed", c>>}])
                  /\ FailInit(c, "first loop")
                  /\ UNCHANGED tool_client_map
             ELSE /\ SetWorld([r.w EXCEPT !.log = @ \cup reg.warned])
                  /\ tool_client_map' = reg.map
                  /\ IF c < NumClients
                     THEN pc' = pc /\ frame' = [frame EXCEPT !.i = c + 1]
                     ELSE pc' = "collect" /\ frame' = frame
                  /\ UNCHANGED last
    /\ UNCHANGED <<messages, _is_initialized, cleanup_lock, turn, task, rt, xt, launch>>

\* The second loop of ChatSession.initialize and the seeding of the history;
\* f is the client whose list_tools raises there, 0 when none does.
CollectTools ==
    /\ pc = "collect"
    /\ \E f \in 0..NumClients :
         IF f = 0
         THEN /\ messages' = <<SystemMessage>>
              /\ _is_initialized' = TRUE
              /\ IF frame.op = "send_message"
                 THEN pc' = "append_user" /\ UNCHANGED <<frame, last>>
                 ELSE Finish(Return("initialize", Bool(TRUE)))
              /\ UNCHANGED log
         ELSE /\ FailInit(f, "second loop")
              /\ log' = log \cup {<<"init failed", f>>}
              /\ UNCHANGED <<messages, _is_initialized>>
    /\ UNCHANGED <<tool_client_map, session, exit_stack, cleanup_lock, turn, stats,
                   task, rt, xt, launch>>

\* ChatSession.cleanup_clients, called by the user (main's finally).
CallCleanupClients ==
    /\ pc = "idle"
    /\ stats.shutdowns < MaxShutdowns
    /\ pc' = "cleanup"
    /\ frame' = [IdleFrame EXCEPT !.op = "cleanup_clients", !.i = 1, !.after = "shutdown"]
    /\ stats' = [stats EXCEPT !.shutdowns = @ + 1]
    /\ log' = {}
    /\ last' = NoResult
    /\ turn' = NoTurn
    /\ UNCHANGED <<messages, _is_initialized, tool_client_map, session, exit_stack,
                   cleanup_lock, task, rt, xt, launch>>

\* The try block of the loop of cleanup_clients: a cleanup that raises is
\* logged as a warning and the loop goes on.
cleanup_clients_except(w, c, out) ==
    IF out = "raise" THEN [w EXCEPT !.log = @ \cup {<<"cleanup warning", c>>}]
    ELSE w

\* A send_message that does not look at what initialize returned.
InitFailureIgnored ==
    IF frame.op = "send_message"
    THEN pc' = "append_user" /\ UNCHANGED <<frame, last>>
    ELSE Finish(InitFailed(frame.op, frame.phase, frame.failing))

\* initialize has returned False to its caller: the user of the ChatSession
\* has that result, and send_message ("if not success") returns its
\* failure text.
InitFailureReturned == Finish(InitFailed(frame.op, frame.phase, frame.failing))

\* One round of the loop of ChatSession.cleanup_clients, and what follows the
\* loop in its caller.
CleanupClient ==
    /\ pc = "cleanup"
    /\ \E close_ok \in BOOLEAN :
         LET c == frame.i
             w == MCPClient_cleanup(World, c, close_ok)
             out == cleanup_outcome(acloseRaises(exit_stack[c], close_ok))
         IN  /\ SetWorld(cleanup_clients_except(w, c, out))
             /\ IF c < NumClients
                THEN pc' = pc /\ frame' = [frame EXCEPT !.i = c + 1] /\ UNCHANGED last
                ELSE IF frame.after = "init_failed"
                     THEN InitFailureReturned
                     ELSE Finish(Return("cleanup_clients", Nothing))
    /\ UNCHANGED <<messages, _is_initialized, tool_client_map, cleanup_lock, turn,
                   task, rt, xt, launch>>

\* A clear_history that forgets the system message.
clearedAll(msgs) == <<>>

\* A clear_history that keeps one message too many.
clearedKeepTwo(msgs) == SubSeq(msgs, 1, IF Len(msgs) < 2 THEN Len(msgs) ELSE 2)

\* system_message = self.messages[0]; self.messages = [system_message]
cleared(msgs) == <<msgs[1]>>

\* ChatSession.clear_history
clear_history ==
    /\ pc = "idle"
    /\ messages' = IF _is_initialized /\ messages # <<>> THEN cleared(messages)
                   ELSE messages
    /\ Finish(Return("clear_history", Nothing))
    /\ log' = {}
    /\ turn' = [turn EXCEPT !.start = 0]
    /\ UNCHANGED <<_is_initialized, tool_client_map, session, exit_stack,
                   cleanup_lock, stats, task, rt, xt, launch>>

\* The longest turn with max_iterations = n keeps the history within
\* MaxHistory: the system message, the user message, and a completion and a
\* tool-result message per round, and the last completion.
TurnFits(n) ==
    (IF _is_initialized THEN Len(messages) ELSE 1) + 2 + 2 * n <= MaxHistory

\* ChatSession.send_message(user_message, max_iterations), up to its first
\* await.
CallSendMessage ==
    /\ pc = "idle"
    /\ \E u \in UserInputs, n \in 0..MaxIterations :
         /\ TurnFits(n)
         /\ IF _is_initialized
            THEN /\ pc' = "append_user"
                 /\ frame' = [IdleFrame EXCEPT !.op = "send_message", !.user = u,
                                               !.max_iterations = n]
                 /\ UNCHANGED <<tool_client_map, stats>>
            ELSE BeginInit("send_message", u, n)
    /\ turn' = NoTurn
    /\ log' = {}
    /\ last' = NoResult
    /\ UNCHANGED <<messages, _is_initialized, session, exit_stack, cleanup_lock,
                   task, rt, xt, launch>>

AppendUser ==
    /\ pc = "append_user"
    /\ messages' = AppendMessage(messages, Message("user", Text(frame.user)))
    /\ turn' = [NoTurn EXCEPT !.start = Len(messages), !.n = frame.max_iterations]
    /\ pc' = "query_first"
    /\ UNCHANGED <<_is_initialized, tool_client_map, session, exit_stack,
                   cleanup_lock, frame, last, log, stats, task, rt, xt, launch>>

\* A completion that is returned without being put in the history.
CompletionNotRecorded(text) ==
    /\ messages' = messages
    /\ turn' = [turn EXCEPT !.completions = @ + 1,
                            !.all_tools = @ /\ _extract_tool_calls(text) # <<>>,
                            !.queried_over = Len(messages)]

\* self.llm_client.get_response(self.messages) returning text, and the append
\* of the assistant message.
Completion(text) ==
    /\ messages' = AppendMessage(messages, Message("assistant", Text(text)))
    /\ turn' = [turn EXCEPT !.completions = @ + 1,
                            !.all_tools = @ /\ _extract_tool_calls(text) # <<>>,
                            !.queried_over = Len(messages)]

LLMFails ==
    /\ Finish(Raise("send_message", "llm"))
    /\ UNCHANGED <<messages, turn>>

QueryFirst ==
    /\ pc = "query_first"
    /\ \/ \E text \in LLMOutputs :
            /\ Completion(text)
            /\ frame' = [frame EXCEPT !.llm_response = text, !.tool_iteration = 0]
            /\ pc' = "loop_head"
            /\ UNCHANGED last
       \/ LLMFails
    /\ UNCHANGED <<_is_initialized, tool_client_map, session, exit_stack,
                   cleanup_lock, log, stats, task, rt, xt, launch>>

\* A loop that runs one round too many.
LoopContinuesOffByOne == frame.tool_iteration <= frame.max_iterations

\* while tool_iteration < max_iterations
LoopContinues == frame.tool_iteration < frame.max_iterations

\* The head of the while loop of send_message, the extraction made by
\* process_tool_calls, and the return that follows the loop.
LoopHead ==
    /\ pc = "loop_head"
    /\ IF LoopContinues
       THEN LET calls == _extract_tool_calls(frame.llm_response)
            IN  IF calls = <<>>
                THEN /\ Finish(Return("send_message", Text(frame.llm_response)))
                     /\ UNCHANGED <<turn, log>>
                ELSE /\ pc' = "exec"
                     /\ frame' = [frame EXCEPT !.tool_iteration = @ + 1,
                                               !.calls = calls, !.idx = 1,
                                               !.tool_calls = <<>>, !.execs = <<>>]
                     /\ turn' = [turn EXCEPT !.rounds = @ + 1,
                                             !.executed_for = Len(messages)]
                     /\ UNCHANGED <<last, log>>
       ELSE /\ Finish(Return("send_message", Text(frame.llm_response)))
            /\ log' = log \cup {<<"max iterations", frame.max_iterations>>}
            /\ UNCHANGED turn
    /\ UNCHANGED <<messages, _is_initialized, tool_client_map, session, exit_stack,
                   cleanup_lock, stats, task, rt, xt, launch>>

sess_up(c) == c # 0 /\ session[c]

\* A loop that takes the calls from the last one to the first.
NextCallReversed == frame.calls[Len(frame.calls) + 1 - frame.idx]

\* "for tool_call in tool_calls": the call the loop of process_tool_calls is at.
NextCall == frame.calls[frame.idx]

\* One round of the loop of process_tool_calls.
ExecCall ==
    /\ pc = "exec"
    /\ \E outcomes \in Outcomes(DefaultRetries) :
         LET r == _execute_tool_call(NextCall, tool_client_map,
                                     session, outcomes)
         IN  IF r.raised # "none"
             THEN /\ Finish(Raise("send_message", r.raised))
                  /\ UNCHANGED turn
             ELSE /\ frame' = [frame EXCEPT
                                 !.tool_calls = Append(@, r.tool_call),
                                 !.execs = Append(@, [client |-> r.client,
                                                      kind |-> r.exec.kind,
                                                      invoked |-> Invoked(r.exec)]),
                                 !.idx = @ + 1]
                  /\ pc' = IF frame.idx = Len(frame.calls) THEN "render" ELSE pc
                  /\ turn' = [turn EXCEPT
                                !.failed = IF r.exec.kind = "raise" /\ sess_up(r.client)
                                           THEN @ \cup {r.client} ELSE @,
                                !.recovered = IF r.exec.kind = "return"
                                              THEN @ \cup ({r.client} \cap turn.failed)
                                              ELSE @]
                  /\ UNCHANGED last
    /\ UNCHANGED <<messages, _is_initialized, tool_client_map, session, exit_stack,
                   cleanup_lock, log, stats, task, rt, xt, launch>>

\* The round's outcomes are rendered and appended as one system message.
Render ==
    /\ pc = "render"
    /\ messages' = AppendMessage(messages, ToolResults(frame.tool_calls))
    /\ pc' = "query_next"
    /\ UNCHANGED <<_is_initialized, tool_client_map, session, exit_stack,
                   cleanup_lock, frame, last, turn, log, stats, task, rt, xt, launch>>

\* The next completion, and the check that ends the turn when it holds no
\* tool call.
QueryNext ==
    /\ pc = "query_next"
    /\ \/ \E text \in LLMOutputs :
            /\ Completion(text)
            /\ IF _extract_tool_calls(text) = <<>>
               THEN Finish(Return("send_message", Text(text)))
               ELSE /\ frame' = [frame EXCEPT !.llm_response = text]
                    /\ pc' = "loop_head"
                    /\ UNCHANGED last
       \/ LLMFails
    /\ UNCHANGED <<_is_initialized, tool_client_map, session, exit_stack,
                   cleanup_lock, log, stats, task, rt, xt, launch>>

(***************************************************************************)
(* SpecRetry: MCPClient.execute_tool called directly, with every value of  *)
(* retries and every behaviour of the tool.                                *)
(***************************************************************************)
InitRetry ==
    /\ NewChatSession
    /\ NewClients
    /\ task = [t \in 1..NumTasks |-> NoTask]
    /\ xt = NoExtract
    /\ launch = NoLaunch
    /\ rt \in { [NoRetry EXCEPT !.pc = "call", !.has_session = h, !.retries = r,
                                !.outcomes = o] :
                 h \in BOOLEAN, r \in -1..MaxRetries, o \in Outcomes(MaxRetries + 1) }

RetryCall ==
    /\ rt.pc = "call"
    /\ rt' = [rt EXCEPT !.pc = "done",
                        !.result = execute_tool(rt.has_session, rt.retries, rt.outcomes)]
    /\ UNCHANGED <<messages, _is_initialized, tool_client_map, session, exit_stack,
                   cleanup_lock, pc, frame, last, turn, log, stats, task, xt, launch>>

NextRetry == RetryCall

SpecRetry == InitRetry /\ [][NextRetry]_vars

(***************************************************************************)
(* SpecExtract: _extract_tool_calls applied to every text that holds one   *)
(* tool object, alone or in prose, with arguments nested up to MaxDepth.   *)
(***************************************************************************)
RECURSIVE Nest(_)
\* An arguments object with d objects nested in it.
Nest(d) == IF d = 0 THEN FlatArgs ELSE <<LB, Key>> \o Nest(d - 1) \o <<RB>>

ArgumentTexts == { EmptyObject } \cup { Nest(d) : d \in 0..MaxDepth }

\* The object with its two keys in either order.
ObjectTexts(n, a) ==
    { CallText(n, a), <<LB, KeyArgs>> \o a \o <<KeyTool(n), RB>> }

\* What surrounds the object: nothing, prose, and prose with a stray brace.
Proses == { <<>>, <<Prose>>, <<Prose, LB, Prose>>, <<Prose, RB, Prose>> }

ToolNames == { SharedTool, OwnTools[1], AbsentTool }

InitExtract ==
    /\ NewChatSession
    /\ NewClients
    /\ task = [t \in 1..NumTasks |-> NoTask]
    /\ rt = NoRetry
    /\ launch = NoLaunch
    /\ \E n \in ToolNames, a \in ArgumentTexts, pre \in Proses, post \in Proses :
         \E o \in ObjectTexts(n, a) :
            xt = [pc |-> "call", text |-> pre \o o \o post, tool |-> n,
                  arguments |-> a, whole |-> (pre = <<>> /\ post = <<>>),
                  result |-> <<>>]

ExtractCall ==
    /\ xt.pc = "call"
    /\ xt' = [xt EXCEPT !.pc = "done", !.result = _extract_tool_calls(xt.text)]
    /\ UNCHANGED <<messages, _is_initialized, tool_client_map, session, exit_stack,
                   cleanup_lock, pc, frame, last, turn, log, stats, task, rt, launch>>

NextExtract == ExtractCall

SpecExtract == InitExtract /\ [][NextExtract]_vars

(***************************************************************************)
(* SpecLaunch: MCPClient.initialize called on a client, new or used, with  *)
(* every configuration of the launch command.                              *)
(***************************************************************************)
\* A client before its first initialize, and one that was initialized and
\* cleaned up by a release that raised.
LaunchStates ==
    { [session |-> FALSE, exit_stack |-> <<>>],
      [session |-> TRUE, exit_stack |-> <<>>] }

InitLaunch ==
    /\ NewChatSession
    /\ \E cs \in [Clients -> LaunchStates] :
         /\ session = [c \in Clients |-> cs[c].session]
         /\ exit_stack = [c \in Clients |-> cs[c].exit_stack]
         /\ stats = [NoStats EXCEPT
                       !.opened = [c \in Clients |-> IF cs[c].session THEN 1 ELSE 0],
                       !.released = [c \in Clients |-> IF cs[c].session THEN 1 ELSE 0],
                       !.cleanups = [c \in Clients |-> IF cs[c].session THEN 1 ELSE 0]]
    /\ cleanup_lock = [c \in Clients |-> 0]
    /\ task = [t \in 1..NumTasks |-> NoTask]
    /\ rt = NoRetry
    /\ xt = NoExtract
    /\ \E c \in Clients, cfg \in Configs :
         launch = [NoLaunch EXCEPT !.pc = "call", !.client = c, !.config = cfg]

\* "await client.initialize()"
LaunchCall ==
    /\ launch.pc = "call"
    /\ \E o \in LaunchOutcomes(launch.config), close_ok \in BOOLEAN :
         LET r == MCPClient_initialize(World, launch.client, o, close_ok)
         IN  /\ SetWorld(r.w)
             /\ launch' = [launch EXCEPT !.pc = "done", !.raised = r.raised,
                                          !.exc = ExcOf(o),
                                          !.attempted = (o # "no_command")]
    /\ UNCHANGED <<messages, _is_initialized, tool_client_map, cleanup_lock, pc,
                   frame, last, turn, task, rt, xt>>

NextLaunch == LaunchCall

SpecLaunch == InitLaunch /\ [][NextLaunch]_vars

(***************************************************************************)
(* SpecCleanup: NumTasks tasks, each calling MCPClient.cleanup up to       *)
(* MaxCalls times on any client, interleaved at the awaits of cleanup.     *)
(***************************************************************************)
\* A client before initialize, one whose initialize stopped half-way and is
\* about to clean up, and one that is initialized.
ClientStates ==
    { [session |-> FALSE, exit_stack |-> <<>>],
      [session |-> FALSE, exit_stack |-> <<"transport">>],
      [session |-> TRUE, exit_stack |-> <<"transport", "session">>] }

InitCleanup ==
    /\ NewChatSession
    /\ \E cs \in [Clients -> ClientStates] :
         /\ session = [c \in Clients |-> cs[c].session]
         /\ exit_stack = [c \in Clients |-> cs[c].exit_stack]
         /\ stats = [NoStats EXCEPT
                       !.opened = [c \in Clients |-> Count(cs[c].exit_stack, "transport")]]
    /\ cleanup_lock = [c \in Clients |-> 0]
    /\ task = [t \in 1..NumTasks |-> NoTask]
    /\ xt = NoExtract
    /\ launch = NoLaunch
    /\ rt = NoRetry

\* A cleanup without the lock.
LockFreeAlways(c) == TRUE

\* "async with self._cleanup_lock" lets a task in when no task holds the lock.
LockFree(c) == cleanup_lock[c] = 0

\* Task t calls cleanup() of client c.
CleanupCall(t, c) ==
    /\ task[t].pc = "idle"
    /\ task[t].calls < MaxCalls
    /\ task' = [task EXCEPT ![t] = [pc |-> "acquire", client |-> c, pending |-> FALSE,
                                    calls |-> @.calls + 1, outcome |-> "none"]]
    /\ stats' = [stats EXCEPT !.cleanups[c] = @ + 1]
    /\ UNCHANGED <<messages, _is_initialized, tool_client_map, session, exit_stack,
                   cleanup_lock, pc, frame, last, turn, log, rt, xt, launch>>

\* Task t enters "async with self._cleanup_lock".
CleanupAcquire(t) ==
    /\ task[t].pc = "acquire"
    /\ LockFree(task[t].client)
    /\ cleanup_lock' = [cleanup_lock EXCEPT ![task[t].client] = t]
    /\ task' = [task EXCEPT ![t].pc = "closing"]
    /\ UNCHANGED <<messages, _is_initialized, tool_client_map, session, exit_stack,
                   pc, frame, last, turn, log, stats, rt, xt, launch>>

\* One callback of "await self.exit_stack.aclose()"; it may raise.
CleanupPop(t) ==
    /\ task[t].pc = "closing"
    /\ exit_stack[task[t].client] # <<>>
    /\ SetWorld(pop_callback(World, task[t].client))
    /\ \E raises \in BOOLEAN :
         task' = [task EXCEPT ![t].pending = @ \/ raises]
    /\ UNCHANGED <<messages, _is_initialized, tool_client_map, cleanup_lock,
                   pc, frame, last, turn, rt, xt, launch>>

\* aclose ends, cleanup drops the handle or logs the error, and the lock is
\* given back.
CleanupLeave(t) ==
    /\ task[t].pc = "closing"
    /\ exit_stack[task[t].client] = <<>>
    /\ SetWorld(after_aclose(World, task[t].client, task[t].pending))
    /\ cleanup_lock' = [cleanup_lock EXCEPT ![task[t].client] = 0]
    /\ task' = [task EXCEPT ![t].pc = "idle",
                            ![t].outcome = cleanup_outcome(task[t].pending)]
    /\ UNCHANGED <<messages, _is_initialized, tool_client_map,
                   pc, frame, last, turn, rt, xt, launch>>

NextCleanup ==
    \/ \E t \in 1..NumTasks, c \in Clients : CleanupCall(t, c)
    \/ \E t \in 1..NumTasks : CleanupAcquire(t)
    \/ \E t \in 1..NumTasks : CleanupPop(t)
    \/ \E t \in 1..NumTasks : CleanupLeave(t)

SpecCleanup == InitCleanup /\ [][NextCleanup]_vars

Next ==
    \/ CallInitialize
    \/ InitClient
    \/ CollectTools
    \/ CallCleanupClients
    \/ CleanupClient
    \/ clear_history
    \/ CallSendMessage
    \/ AppendUser
    \/ QueryFirst
    \/ LoopHead
    \/ ExecCall
    \/ Render
    \/ QueryNext

Spec == Init /\ [][Next]_vars
(***************************************************************************)
(* Properties.                                                             *)
(***************************************************************************)
IsPrefix(a, b) == Len(a) <= Len(b) /\ SubSeq(b, 1, Len(a)) = a

\* The last operation was a send_message that returned a completion.
SendReturned ==
    last.op = "send_message" /\ last.kind = "return" /\ last.value.k = "text"

\* C1: a send_message with max_iterations = N executes at most N tool rounds;
\* when every completion of the turn holds a tool call and the call returns,
\* it has executed exactly N rounds and obtained N + 1 completions, the calls
\* of the last completion were not executed, the text returned is that last
\* completion, and the bound was logged.
C1_IterationBound ==
    /\ turn.rounds <= turn.n
    /\ (SendReturned /\ turn.all_tools) =>
         /\ turn.rounds = turn.n
         /\ turn.completions = turn.n + 1
         /\ turn.executed_for < Len(messages)
         /\ messages[Len(messages)].role = "assistant"
         /\ last.value = messages[Len(messages)].content
         /\ <<"max iterations", turn.n>> \in log

C1_Witness ==
    /\ SendReturned
    /\ turn.all_tools
    /\ turn.n = MaxIterations
    /\ turn.rounds = MaxIterations

\* The role of the k-th message a turn adds: user, assistant, (system,
\* assistant)*.
TurnRole(k) == IF k = 1 THEN "user" ELSE IF k % 2 = 0 THEN "assistant" ELSE "system"

Reported(m) ==
    [j \in 1..Len(m.content.lines) |->
        [tool |-> m.content.lines[j].tool, arguments |-> m.content.lines[j].arguments]]

C2_TurnForm ==
    turn.start > 0 =>
      /\ \A i \in (turn.start + 1)..Len(messages) :
           /\ messages[i].role = TurnRole(i - turn.start)
           /\ messages[i].role = "system" =>
                /\ messages[i].content.k = "tool_results"
                /\ Reported(messages[i]) = _extract_tool_calls(messages[i - 1].content.text)
      /\ turn.completions >= 1 =>
           /\ messages[turn.queried_over].role =
                 (IF turn.completions = 1 THEN "user" ELSE "system")
           /\ messages[turn.queried_over + 1].role = "assistant"
           /\ \A i \in (turn.queried_over + 2)..Len(messages) :
                messages[i].role # "assistant"
      /\ SendReturned =>
           /\ Len(messages) - turn.start >= 2
           /\ (Len(messages) - turn.start) % 2 = 0

\* C2: while send_message runs the history only grows at its end; the
\* messages of a turn are user, assistant, (system, assistant)*, each system
\* message reports the calls of the assistant message right before it, each
\* completion is asked for over a history that ends with the user message
\* (the first) or with the round's system message (the others), and a turn
\* that returns ends with an assistant message.
C2_AppendOnlyHistory ==
    /\ []C2_TurnForm
    /\ [][frame.op = "send_message" => IsPrefix(messages, messages')]_vars

C2_Witness ==
    /\ SendReturned
    /\ Len(messages) - turn.start = 6

\* C3: once initialized, the history is never empty and starts with the
\* system message built by initialize.
C3_SystemMessageFirst ==
    _is_initialized => (messages # <<>> /\ messages[1] = SystemMessage)

C3_Witness ==
    /\ _is_initialized
    /\ Len(messages) > 1
    /\ last.op = "initialize"
    /\ last.kind = "return"

ClearStep == pc = "idle" /\ pc' = "idle" /\ last'.op = "clear_history"

\* C4: clear_history on an initialized orchestrator leaves exactly the first
\* message, before initialization it leaves the history as it is, and in
\* both cases it changes neither the registry, the flag nor the sessions.
C4_ClearHistory ==
    [][ClearStep =>
         /\ IF _is_initialized
            THEN messages' = <<messages[1]>>
            ELSE messages' = messages
         /\ UNCHANGED <<_is_initialized, tool_client_map, session, exit_stack,
                        cleanup_lock, stats>>]_vars

C4_Witness ==
    /\ last.op = "clear_history"
    /\ _is_initialized
    /\ turn.completions > 0
    /\ Len(messages) = 1

RECURSIVE FirstOk(_, _, _)
\* The first attempt from k to n that succeeds, 0 when none does.
FirstOk(outcomes, k, n) ==
    IF k > n THEN 0
    ELSE IF outcomes[k] = "ok" THEN k
    ELSE FirstOk(outcomes, k + 1, n)

\* call, sleep, call, ..., call
Alternating(trace) ==
    /\ Len(trace) % 2 = 1
    /\ \A i \in 1..Len(trace) : trace[i] = IF i % 2 = 1 THEN "call" ELSE "sleep"

\* C5: execute_tool with retries = R >= 1 on an initialized session calls the
\* tool until it succeeds, with a sleep between two calls and none after the
\* last: R calls and the R-th failure raised when every call fails, k calls
\* and the result returned when the k-th is the first to succeed.
C5_RetryLaw ==
    (rt.pc = "done" /\ rt.has_session /\ rt.retries >= 1) =>
      LET k == FirstOk(rt.outcomes, 1, rt.retries)
          r == rt.result
      IN  /\ Alternating(r.trace)
          /\ IF k = 0
             THEN /\ r.kind = "raise"
                  /\ r.exc = rt.retries
                  /\ Invoked(r) = rt.retries
                  /\ Waits(r) = rt.retries - 1
             ELSE /\ r.kind = "return"
                  /\ r.value = "CallToolResult"
                  /\ Invoked(r) = k
                  /\ Waits(r) = k - 1

C5_Witness ==
    /\ rt.pc = "done"
    /\ rt.has_session
    /\ rt.retries = DefaultRetries
    /\ FirstOk(rt.outcomes, 1, rt.retries) = 0
    /\ rt.result.kind = "raise"
    /\ Invoked(rt.result) = 2

InRegion(c) == {t \in 1..NumTasks : task[t].pc = "closing" /\ task[t].client = c}

\* C6: however many cleanup() calls run on a client and however they
\* interleave, at most one is between taking and giving back the lock, the
\* transport is released at most once, and none raises.
C6_CleanupOnce ==
    /\ \A c \in Clients :
         /\ Cardinality(InRegion(c)) <= 1
         /\ stats.released[c] <= stats.opened[c]
    /\ \A t \in 1..NumTasks : task[t].outcome # "raise"

C6_Witness ==
    \E c \in Clients, t1, t2 \in 1..NumTasks :
      /\ session[c]
      /\ stats.released[c] = 1
      /\ task[t1].pc = "closing" /\ task[t1].client = c /\ task[t1].pending
      /\ task[t2].pc = "acquire" /\ task[t2].client = c

InitFailedReturn ==
    last.kind = "return" /\ last.cause \in {"first loop", "second loop"}

\* C7: when a client's initialize or list_tools fails in ChatSession.initialize,
\* the orchestrator is not ready and its history is empty from the failure
\* on, and when the call returns it reports failure, cleanup has been called
\* on every client, no client has anything on its exit stack, and only the
\* clients up to the failing one were initialized (all of them when the
\* failure is in the second loop).
C7_FailFast ==
    /\ (pc = "cleanup" /\ frame.after = "init_failed") =>
         (~_is_initialized /\ messages = <<>>)
    /\ InitFailedReturn =>
         /\ ~_is_initialized
         /\ messages = <<>>
         /\ last.value = (IF last.op = "initialize" THEN Bool(FALSE) ELSE InitFailedText)
         /\ \A c \in Clients : exit_stack[c] = <<>> /\ stats.cleanups[c] >= 1
         /\ stats.client_inits =
               (IF last.cause = "first loop" THEN last.failing ELSE NumClients)

C7_Witness ==
    /\ InitFailedReturn
    /\ last.cause = "first loop"
    /\ last.failing = NumClients
    /\ stats.opened[1] = 1
    /\ stats.released[1] = 1

RECURSIVE FirstOffering(_, _)
\* The first client, from c on, whose catalogue holds the tool name.
FirstOffering(name, c) ==
    IF \E i \in DOMAIN Catalogue(c) : Catalogue(c)[i] = name THEN c
    ELSE FirstOffering(name, c + 1)

\* C8: after initialization the registry maps every tool name to the first
\* client, in the configured order, that offers it.
C8_FirstRegistrantWins ==
    _is_initialized =>
      \A name \in DOMAIN tool_client_map :
        tool_client_map[name] = FirstOffering(name, 1)

\* C9: a request whose tool is not in the registry never makes send_message
\* raise: it contacts no session and gets a "tool not found" error and no
\* result.
C9_AbsentToolFolded ==
    /\ ~(last.op = "send_message" /\ last.kind = "raise" /\ last.cause = "lookup")
    /\ \A i \in DOMAIN frame.tool_calls :
         frame.execs[i].client = 0 =>
           /\ frame.execs[i].invoked = 0
           /\ frame.tool_calls[i].error = ToolNotFound
           /\ frame.tool_calls[i].result = None

C10_Captured ==
    /\ ~(last.op = "send_message" /\ last.kind = "raise" /\ last.cause = "exec")
    /\ \A i \in DOMAIN frame.tool_calls :
         (frame.execs[i].client # 0 /\ frame.execs[i].kind = "raise") =>
           /\ frame.tool_calls[i].error = ToolError
           /\ frame.tool_calls[i].result = None
    /\ pc \in {"render", "query_next"} => Len(frame.tool_calls) = Len(frame.calls)
    /\ pc = "query_next" => messages[Len(messages)] = ToolResults(frame.tool_calls)

\* C10: a tool that still fails after its retries does not make send_message
\* raise: its call gets the error as outcome, every call of the round gets an
\* outcome, the outcomes are appended before the next completion is asked
\* for, and executing calls changes no client's handle, exit stack or lock.
C10_ToolFailureNotFatal ==
    /\ []C10_Captured
    /\ [][pc = "exec" => UNCHANGED <<session, exit_stack, cleanup_lock>>]_vars

C10_Witness ==
    /\ pc = "query_next"
    /\ turn.recovered # {}
    /\ Len(frame.tool_calls) = 2
    /\ turn.rounds = 2

\* The outcome tc is an outcome of the request req.
OutcomeOf(tc, req) ==
    /\ tc.tool = req.tool
    /\ tc.arguments = req.arguments
    /\ (tc.result # None \/ tc.error # None)

C11_InOrder ==
    /\ pc \in {"exec", "render"} =>
         /\ Len(frame.tool_calls) = frame.idx - 1
         /\ Len(frame.execs) = frame.idx - 1
         /\ frame.idx <= Len(frame.calls) + 1
         /\ pc = "exec" => frame.idx <= Len(frame.calls)
         /\ pc = "render" => frame.idx = Len(frame.calls) + 1
         /\ \A i \in DOMAIN frame.tool_calls :
              OutcomeOf(frame.tool_calls[i], frame.calls[i])
    /\ pc = "query_next" =>
         LET m == messages[Len(messages)]
         IN  /\ m.role = "system"
             /\ m.content.k = "tool_results"
             /\ Len(m.content.lines) = Len(frame.calls)
             /\ frame.calls = _extract_tool_calls(frame.llm_response)
             /\ \A i \in DOMAIN frame.calls :
                  /\ m.content.lines[i].tool = frame.calls[i].tool
                  /\ m.content.lines[i].arguments = frame.calls[i].arguments
                  /\ m.content.lines[i] = RenderLine(frame.tool_calls[i])

\* One execution: the calls made so far keep their outcomes and one outcome
\* is added, for the call that follows them.
C11_OneAtATime ==
    (pc = "exec" /\ pc' # "idle") =>
        /\ frame'.calls = frame.calls
        /\ frame'.idx = frame.idx + 1
        /\ Len(frame'.tool_calls) = Len(frame.tool_calls) + 1
        /\ IsPrefix(frame.tool_calls, frame'.tool_calls)
        /\ IsPrefix(frame.execs, frame'.execs)

\* C11: in a tool round with n >= 1 extracted calls the calls are executed
\* one at a time in the order of extraction (each execution, its retries
\* included, is over before the next begins), and the system message
\* rendered for the round lists n outcomes in that order.
C11_ExecutionOrder ==
    /\ []C11_InOrder
    /\ [][C11_OneAtATime]_vars

C11_Witness ==
    /\ pc = "query_next"
    /\ Len(frame.calls) = 2
    /\ frame.calls[1].tool # frame.calls[2].tool
    /\ Len(messages[Len(messages)].content.lines) = 2
    /\ frame.execs[1].invoked = 2

\* Completions that hold no tool object: prose, and an object that is never
\* closed.
NoToolTexts == { <<Prose>>, Unclosed }

\* A send_message is running or was the last operation to end, and its
\* first completion is in the history.
InTurn ==
    /\ turn.completions >= 1
    /\ (pc # "idle" \/ last.op = "send_message")

FirstCompletion == messages[turn.start + 2].content.text

\* C12: when the first completion of a turn holds no parseable tool object
\* (malformed JSON included), extraction gives the empty sequence, no tool
\* round runs, no client is contacted, send_message returns the completion
\* unchanged, and the turn has added the user message and the assistant
\* message to the history and nothing else.
C12_NoToolCompletion ==
    (InTurn /\ FirstCompletion \in NoToolTexts) =>
        /\ _extract_tool_calls(FirstCompletion) = <<>>
        /\ turn.rounds = 0
        /\ turn.completions = 1
        /\ turn.failed = {} /\ turn.recovered = {}
        /\ pc \in {"loop_head", "idle"}
        /\ frame.execs = <<>> /\ frame.tool_calls = <<>>
        /\ Len(messages) = turn.start + 2
        /\ messages[turn.start + 1].role = "user"
        /\ messages[turn.start + 2].role = "assistant"
        /\ pc = "idle" => last = Return("send_message", Text(FirstCompletion))

C12_Witness ==
    /\ pc = "idle"
    /\ InTurn
    /\ FirstCompletion = Unclosed
    /\ last = Return("send_message", Text(Unclosed))
    /\ turn.n > 0

\* C13: every session is torn down exactly once: the cleanup of a client is
\* triggered no more than once for the session it holds, and it has been
\* triggered once for every client when a shutdown or a failed
\* initialization is over.
C13_TornDownOnce ==
    /\ \A c \in Clients : stats.cleanups[c] <= 1
    /\ (InitFailedReturn \/ last.op = "cleanup_clients") =>
          \A c \in Clients : stats.cleanups[c] = 1

\* MCPClient.initialize of client c has raised from inside its try block and
\* the caller, ChatSession.initialize, has the exception.
InitializeRaised(c) ==
    /\ <<"initialize error", c>> \in log
    /\ pc = "cleanup" /\ frame.after = "init_failed" /\ frame.i = 1

\* C14: when MCPClient.initialize fails at the transport launch, the session
\* creation or the handshake, the error reaches the caller (it is not
\* swallowed), and when it does everything the call had entered on the exit
\* stack has been released and the client holds no session handle.
C14_Released ==
    \A c \in Clients :
        /\ <<"initialize error", c>> \in log =>
              \/ pc = "cleanup" /\ frame.after = "init_failed" /\ frame.failing = c
              \/ pc = "idle" /\ InitFailedReturn /\ last.failing = c
        /\ InitializeRaised(c) =>
              /\ exit_stack[c] = <<>>
              /\ stats.released[c] = stats.opened[c]
              /\ ~session[c]

\* The resources of client c: nothing is released twice, and nothing is left
\* open once the teardown is over.
ReleasedAtMostOnce(c) == stats.opened[c] <= 1 /\ stats.released[c] <= stats.opened[c]
AllReleased(c) == exit_stack[c] = <<>> /\ stats.released[c] = stats.opened[c]

\* C13 as amended: the cleanup of a session may be triggered more than once
\* (by the failing MCPClient.initialize itself, by cleanup_clients after a
\* failed initialization, by the shutdown), but its transport is released
\* at most once, and when a shutdown or a failed initialization is over
\* cleanup has been triggered at least once on every client and everything
\* that was opened has been released.
C13_ReleasedOnce ==
    /\ \A c \in Clients : ReleasedAtMostOnce(c)
    /\ (InitFailedReturn \/ last.op = "cleanup_clients") =>
          \A c \in Clients : stats.cleanups[c] >= 1 /\ AllReleased(c)

C13_Witness ==
    /\ InitFailedReturn
    /\ stats.cleanups[last.failing] = 2
    /\ stats.opened[last.failing] = 1
    /\ stats.released[last.failing] = 1

\* send_message is initializing the orchestrator.
LazyInit == frame.op = "send_message" /\ pc \in {"init_client", "collect", "cleanup"}

UserMessage == Message("user", Text(frame.user))

C15_State ==
    /\ LazyInit => messages = <<>> /\ ~_is_initialized /\ turn = NoTurn
    /\ (last.op = "send_message" /\ InitFailedReturn) =>
          /\ last.value = InitFailedText
          /\ messages = <<>>
          /\ ~_is_initialized
          /\ turn = NoTurn
    /\ pc = "append_user" => _is_initialized /\ messages[1] = SystemMessage
    /\ pc = "query_first" =>
          /\ Len(messages) >= 2
          /\ messages[1] = SystemMessage
          /\ messages[Len(messages)] = UserMessage
          /\ turn.completions = 0

C15_Step ==
    /\ (LazyInit /\ pc' = "append_user") => messages' = <<SystemMessage>>
    /\ (LazyInit /\ pc' # "append_user") => messages' = messages
    /\ (pc = "append_user" /\ Len(messages) = 1) =>
          messages' = <<SystemMessage, UserMessage>>

\* C15: send_message on an orchestrator that is not initialized runs
\* initialize first.  When that fails send_message ends with its failure
\* text, the user message is not appended, the model is not queried, no tool
\* is executed and the history is as it was; when it succeeds the turn goes
\* on with a history made of the system message followed by the user
\* message.
C15_LazyInitialization ==
    /\ []C15_State
    /\ [][C15_Step]_vars

C15_Witness ==
    /\ pc = "query_first"
    /\ messages = <<SystemMessage, UserMessage>>
    /\ stats.inits = 2

\* Exactly one of result and error is populated.
OneOfResultError(tc) == (tc.result = None) # (tc.error = None)

\* The i-th execution of the round went through: a client was found and its
\* execute_tool returned.
Succeeded(i) == frame.execs[i].client # 0 /\ frame.execs[i].kind = "return"

\* C16: every outcome that executing a request returns has exactly one of
\* result and error populated (the result when the tool returned, the error
\* when it failed or was not found), and the line rendered for it shows the
\* result of a successful call and the error of a failed one.
C16_ResultXorError ==
    /\ \A i \in DOMAIN frame.tool_calls :
         LET tc == frame.tool_calls[i]
         IN  /\ OneOfResultError(tc)
             /\ Succeeded(i) <=> tc.result # None
             /\ Succeeded(i) <=> is_successful(tc)
             /\ RenderLine(tc).shown = IF Succeeded(i) THEN tc.result ELSE tc.error
             /\ RenderLine(tc).shown # None
    /\ \A k \in DOMAIN messages :
         (messages[k].role = "system" /\ messages[k].content.k = "tool_results") =>
             \A i \in DOMAIN messages[k].content.lines :
                 messages[k].content.lines[i].shown # None
    /\ pc = "query_next" =>
         \A i \in DOMAIN frame.tool_calls :
             messages[Len(messages)].content.lines[i].shown =
                 IF Succeeded(i) THEN frame.tool_calls[i].result
                 ELSE frame.tool_calls[i].error

C16_Witness ==
    /\ pc = "query_next"
    /\ Len(frame.tool_calls) = 2
    /\ messages[Len(messages)].content.lines[1].shown = ToolError
    /\ messages[Len(messages)].content.lines[2].shown = ToolNotFound
    /\ \E k \in DOMAIN messages :
         /\ messages[k].role = "system" /\ messages[k].content.k = "tool_results"
         /\ messages[k].content.lines[1].shown = "CallToolResult"

C17_State ==
    /\ \A c \in Clients : <<"cleanup warning", c>> \notin log
    /\ ~(last.kind = "raise" /\ last.op \in {"cleanup_clients", "initialize"})
    /\ pc = "cleanup" => \A c \in 1..(frame.i - 1) : stats.cleanups[c] >= 1
    /\ (last.op = "cleanup_clients" \/ InitFailedReturn) =>
          /\ last.kind = "return"
          /\ \A c \in Clients : stats.cleanups[c] >= 1 /\ exit_stack[c] = <<>>

\* One round of cleanup_clients calls cleanup on the client it is at and
\* goes on to the next client, whatever the release did.
C17_Step ==
    pc = "cleanup" =>
        /\ stats'.cleanups[frame.i] = stats.cleanups[frame.i] + 1
        /\ frame.i < NumClients => pc' = "cleanup" /\ frame'.i = frame.i + 1
        /\ frame.i = NumClients => pc' = "idle" /\ last'.kind = "return"

\* C17: teardown never throws.  What a release raises is logged and
\* swallowed by MCPClient.cleanup, so cleanup never raises to
\* cleanup_clients and cleanup_clients never raises to its caller; and when
\* the release of one client fails, cleanup is still called on every client
\* after it.
C17_TeardownNeverThrows ==
    /\ []C17_State
    /\ [][C17_Step]_vars

C17_Witness ==
    /\ last = Return("cleanup_clients", Nothing)
    /\ <<"cleanup error", 1>> \in log
    /\ <<"cleanup error", 2>> \notin log
    /\ stats.cleanups[2] = 1
    /\ stats.released[2] = 1

\* cleanup_clients has been called by the user and has returned.
ShutDown == stats.shutdowns >= 1 /\ frame.op # "cleanup_clients"

\* C18: shutdown is terminal.  Once cleanup_clients has returned, every
\* client's resources are released and stay so, and a further send_message
\* ends in an error: it does not append to the history, does not query the
\* model and does not return a completion.
C18_ShutdownTerminal ==
    ShutDown =>
        /\ \A c \in Clients : exit_stack[c] = <<>>
        /\ pc \notin {"append_user", "query_first", "loop_head", "exec", "render",
                       "query_next"}
        /\ turn.completions = 0
        /\ ~(last.op = "send_message" /\ last.kind = "return" /\ last.value.k = "text")

\* The arguments hold no brace besides the pair that encloses them.
Flat(a) == \A i \in 2..(Len(a) - 1) : ~IsBrace(a[i])

TheRequest == [tool |-> xt.tool, arguments |-> xt.arguments]

\* C19: for every text that holds a single well-formed object with a tool
\* key and an arguments key, alone or in prose, whatever the nesting depth
\* of its arguments, extraction returns exactly one request, equal to the
\* object.
C19_ExtractsAnyDepth ==
    xt.pc = "done" => xt.result = <<TheRequest>>

\* C19 as amended: extraction returns exactly one request, equal to the
\* object, when the object is the whole text (at any nesting depth of its
\* arguments) and when it is embedded in prose and holds no brace besides its
\* own pair and the pair that encloses its arguments.
C19_ExtractsOneLevel ==
    (xt.pc = "done" /\ (xt.whole \/ Flat(xt.arguments))) =>
        xt.result = <<TheRequest>>

C19_Witness ==
    /\ xt.pc = "done"
    /\ xt.text = <<Prose, LB, Prose>> \o CallText(SharedTool, FlatArgs) \o <<Prose>>
    /\ xt.result = <<[tool |-> SharedTool, arguments |-> FlatArgs]>>

\* C20: MCPClient.initialize resolves the launch command of every client:
\* a command that is not on the system is rejected with the configuration
\* error before the launch of the transport is attempted, nothing is opened
\* and no session handle is stored by the call.
C20_CommandResolved ==
    (launch.pc = "done" /\ ~launch.config.located) =>
        /\ launch.raised
        /\ launch.exc = "ValueError"
        /\ ~launch.attempted
        /\ <<"initialize error", launch.client>> \notin log
        /\ exit_stack[launch.client] = <<>>
        /\ stats.released[launch.client] = stats.opened[launch.client]

\* C21: whenever send_message returns a completion on an initialized
\* orchestrator, because the completion holds no tool call or because the
\* iteration bound is reached, the last message of the history is the
\* assistant message whose content is the text returned.
C21_HistoryEndsWithAnswer ==
    SendReturned =>
        /\ _is_initialized
        /\ messages[Len(messages)] = Message("assistant", last.value)
        /\ Len(messages) = turn.start + 2 + 2 * turn.rounds
        /\ turn.completions = turn.rounds + 1

C21_Witness ==
    /\ SendReturned
    /\ turn.rounds = turn.n
    /\ turn.n >= 1
    /\ _extract_tool_calls(last.value.text) # <<>>
    /\ messages[Len(messages)] = Message("assistant", last.value)

\* A cleanup() of client c has returned and no other one is under way.
CleanupReturned(c) ==
    /\ \E t \in 1..NumTasks :
         task[t].pc = "idle" /\ task[t].client = c /\ task[t].outcome = "return"
    /\ \A t \in 1..NumTasks : task[t].pc = "idle"

\* C22: after cleanup() of a client has returned, whether the release went
\* through or raised, the client holds no session handle, so a following
\* execute_tool or list_tools fails with the not-initialized error and does
\* not reach the transport that was released.
C22_HandleAbsentAfterCleanup ==
    \A c \in Clients :
        CleanupReturned(c) =>
            /\ exit_stack[c] = <<>>
            /\ ~session[c]
            /\ \A o \in Outcomes(DefaultRetries) :
                 execute_tool(session[c], DefaultRetries, o) = NotInitialized
            /\ MCPClient_list_tools(World, c, "ok").raised

\* C23: for every value of retries, zero and negative values included,
\* execute_tool on an initialized session either returns the value of a tool
\* call that succeeded or raises; it does not return without a tool call
\* having succeeded.
C23_ReturnsResultOrRaises ==
    (rt.pc = "done" /\ rt.has_session) =>
        \/ rt.result.kind = "raise" /\ rt.result.value = None
        \/ /\ rt.result.kind = "return"
           /\ rt.result.value = "CallToolResult"
           /\ Invoked(rt.result) >= 1
           /\ rt.outcomes[Invoked(rt.result)] = "ok"
====
